---- MODULE Spec2Model ----
(***************************************************************************)
(* State-machine model of supervisor.js: one supervisor process that       *)
(* spawns a child command, watches its output, kills and restarts it under *)
(* a bounded policy and shuts itself down.                                  *)
(*                                                                         *)
(* Every reaction of the Node event loop (timer callback, child event,     *)
(* process signal, HTTP request) is one action.  Handlers are written as   *)
(* operators from a state record to a state record, so that a handler      *)
(* that calls another handler is the composition of the two.               *)
(*                                                                         *)
(* Time is the value of Date.now() in milliseconds since module load.      *)
(* Timers carry their absolute deadline; the clock only moves to the next  *)
(* deadline, and a due timer fires before the clock moves again.           *)
(***************************************************************************)
EXTENDS Integers, Sequences, FiniteSets, TLC

\* ---------------------------------------------------------------- CONFIG
STREAM_TIMEOUT_MS == 300000
HANG_CHECK_INTERVAL_MS == 5000
MAX_RESTARTS == 3
RESTART_DELAY_MS == 2000
RESTART_WINDOW_MS == 3600000
GRACEFUL_SHUTDOWN_TIMEOUT_MS == 10000
SIGKILL_DELAY_MS == 5000
\* output.trim().slice(-100)
SNIPPET_LEN == 100

\* ---------------------------------------------------------------- bounds
\* clock moves allowed before a shutdown request (after it the run is
\* finite by itself: the process exits within the shutdown timeout)
MaxAdvances == 2
\* the same, for the runs without a hang and for the fair runs
NoHangAdvances == 4
FairAdvances == 1
\* the same, for the runs without status queries: enough for a hang, the
\* restart after it and the forced-kill delay
QuietAdvances == 3
\* the same, for the fair runs without status queries: enough for a hang
\* and the forced-kill delay
HangAdvances == 2
\* the same, for the runs without a shutdown request from outside: enough
\* for two restarts, a silent stretch and the restart delay after it
LeakAdvances == 4
\* the same, for the runs with a child that cannot be signalled: enough for
\* a hang and two rounds of restarts after it
RefuseAdvances == 3
\* output chunks the children write over a run
MaxOutputs == 1
\* restart policy inputs: largest restart count and longest history tried
MaxCount == 4
MaxHist == 4
\* output tracking on its own: output events in a run, and clock values
MaxEvents == 3
MaxClock == 3

\* JavaScript null / undefined in an integer-valued field
Null == -1

VARIABLES
  \* supervisorState
  claudeProcess,          \* index into children, or Null
  httpServer,             \* "null" | "listening" | "closing" | "closed"
  lastOutputTs,
  lastOutputLine,
  streamActive,
  restartCount,
  restartTimestamps,
  sessionId,
  claudeCommand,
  shuttingDown,
  exitCode,
  hangDetectionInterval,  \* id of the interval timer last started, or Null
  \* runtime
  now,                    \* Date.now()
  pc,                     \* "start" | "ready" | "policy"
  children,               \* every ChildProcess object created so far
  timers,                 \* armed timers of the event loop
  nextTimer,              \* next timer id
  cleanup,                \* the cleanupTasks promises of gracefulShutdown
  exited,                 \* process.exit was called
  processExitCode,        \* its argument
  \* observation
  advances,               \* clock moves left before a shutdown request
  outputs,                \* output chunks written
  response,               \* HTTP response written by the reaction that just ran
  firstCall,              \* arguments of the gracefulShutdown call that took effect
  lastCall,               \* gracefulShutdown call made by the reaction that just ran
  lastExit,               \* 'exit' event handled by the reaction that just ran
  fired,                  \* timer whose callback the reaction that just ran was
  lastData,               \* 'data' event handled by the reaction that just ran
  cancelled,              \* restarts cancelled by a shutdown when their timer fired
  canRestartResult        \* <<>> or <<b>>: a returned canAttemptRestart()

vars == <<claudeProcess, httpServer, lastOutputTs, lastOutputLine,
          streamActive, restartCount, restartTimestamps, sessionId,
          claudeCommand, shuttingDown, exitCode, hangDetectionInterval,
          now, pc, children, timers, nextTimer, cleanup, exited,
          processExitCode, advances, outputs, response, firstCall,
          lastCall, lastExit, fired, lastData, cancelled, canRestartResult>>

\* the fields of supervisorState
supervisorState == <<claudeProcess, httpServer, lastOutputTs, lastOutputLine,
          streamActive, restartCount, restartTimestamps, sessionId,
          claudeCommand, shuttingDown, exitCode, hangDetectionInterval>>

St == [claudeProcess |-> claudeProcess, httpServer |-> httpServer,
       lastOutputTs |-> lastOutputTs, lastOutputLine |-> lastOutputLine,
       streamActive |-> streamActive, restartCount |-> restartCount,
       restartTimestamps |-> restartTimestamps, sessionId |-> sessionId,
       claudeCommand |-> claudeCommand, shuttingDown |-> shuttingDown,
       exitCode |-> exitCode, hangDetectionInterval |-> hangDetectionInterval,
       now |-> now, pc |-> pc, children |-> children, timers |-> timers,
       nextTimer |-> nextTimer, cleanup |-> cleanup, exited |-> exited,
       processExitCode |-> processExitCode, advances |-> advances,
       outputs |-> outputs, response |-> response,
       firstCall |-> firstCall, lastCall |-> lastCall, lastExit |-> lastExit,
       fired |-> fired, lastData |-> lastData,
       cancelled |-> cancelled,
       canRestartResult |-> canRestartResult]

\* a reaction ends: the state it computed (once, as r) becomes the state
Set(s) ==
  \E r \in {s} :
    /\ claudeProcess' = r.claudeProcess
    /\ httpServer' = r.httpServer
    /\ lastOutputTs' = r.lastOutputTs
    /\ lastOutputLine' = r.lastOutputLine
    /\ streamActive' = r.streamActive
    /\ restartCount' = r.restartCount
    /\ restartTimestamps' = r.restartTimestamps
    /\ sessionId' = r.sessionId
    /\ claudeCommand' = r.claudeCommand
    /\ shuttingDown' = r.shuttingDown
    /\ exitCode' = r.exitCode
    /\ hangDetectionInterval' = r.hangDetectionInterval
    /\ now' = r.now
    /\ pc' = r.pc
    /\ children' = r.children
    /\ timers' = r.timers
    /\ nextTimer' = r.nextTimer
    /\ cleanup' = r.cleanup
    /\ exited' = r.exited
    /\ processExitCode' = r.processExitCode
    /\ advances' = r.advances
    /\ outputs' = r.outputs
    /\ response' = r.response
    /\ firstCall' = r.firstCall
    /\ lastCall' = r.lastCall
    /\ lastExit' = r.lastExit
    /\ fired' = r.fired
    /\ lastData' = r.lastData
    /\ cancelled' = r.cancelled
    /\ canRestartResult' = r.canRestartResult

\* ---------------------------------------------------------------- timers
\* setTimeout / setInterval: a timer of the given kind, due after delay
AddTimer(s, kind, delay, pid) ==
  [s EXCEPT !.timers = @ \cup {[id |-> s.nextTimer, kind |-> kind,
                                 at |-> s.now + delay, pid |-> pid]},
            !.nextTimer = @ + 1]

\* clearTimeout / clearInterval
ClearTimer(s, id) == [s EXCEPT !.timers = {t \in @ : t.id # id}]

Due(t) == t.at <= now

NoTimer == [id |-> Null, kind |-> "none", at |-> Null, pid |-> Null]

\* ---------------------------------------------------------------- child
\* the ChildProcess object returned by spawn(); ok = the launch succeeded
NewChild(ok, attempt) ==
  [alive |-> ok,              \* launched and not yet terminated
   errPending |-> ~ok,        \* launch failed: 'error' is still to be emitted
   killed |-> FALSE,          \* ChildProcess.killed: a kill() delivered a signal
   sigs |-> {},               \* signals delivered to the process
   exitSeen |-> FALSE,        \* 'exit' was emitted
   attempt |-> attempt,       \* restartCount + 1 at spawn
   cascades |-> 0,            \* kill cascades started for it by the hang path
   shutdownListener |-> FALSE,\* gracefulShutdown added its 'exit' listener
   refuses |-> FALSE,         \* the OS refuses the supervisor's signals to it
   failures |-> 0             \* times its listeners entered the failure path
  ]

\* the 'error' listener of setupProcessHandlers, defined with the child
\* events below
RECURSIVE OnError(_, _)

\* claudeProcess.kill(sig): delivers the signal and sets .killed when the
\* process handle still exists; returns false and changes nothing when the
\* child has terminated; when the OS refuses the signal (EPERM) nothing is
\* delivered, .killed stays false and 'error' is emitted to the listener
\* before kill returns
KillChild(s, c, sig) ==
  IF ~s.children[c].alive THEN s
  ELSE IF s.children[c].refuses THEN OnError(s, c)
  ELSE [s EXCEPT !.children[c].killed = TRUE,
                 !.children[c].sigs = @ \cup {sig}]

\* supervisorState.claudeProcess && !supervisorState.claudeProcess.killed
ProcessNotKilled(s) ==
  s.claudeProcess # Null /\ ~s.children[s.claudeProcess].killed

\* ---------------------------------------------------------------- exit
ProcessExit(s, code) ==
  [s EXCEPT !.exited = TRUE, !.processExitCode = code]

\* variant: final exit always reports success
finalExit_success(s, code) == ProcessExit(s, 0)

finalExit(s, code) == ProcessExit(s, code)

\* variant: a cleanup step that ended with an error keeps the others waiting
AllSettled_failedBlocks(s) ==
  IF /\ s.cleanup.active
     /\ s.cleanup.server \in {"none", "settled"}
     /\ s.cleanup.child # "pending"
  THEN finalExit(s, s.cleanup.code)
  ELSE s

\* Promise.allSettled(cleanupTasks).then(() => finalExit(exitCode, reason))
AllSettled(s) ==
  IF /\ s.cleanup.active
     /\ s.cleanup.server # "pending"
     /\ s.cleanup.child # "pending"
  THEN finalExit(s, s.cleanup.code)
  ELSE s

\* ---------------------------------------------------------------- spawn
spawnClaudeProcess(s, ok) ==
  IF s.shuttingDown THEN s
  ELSE [s EXCEPT !.children = Append(@, NewChild(ok, s.restartCount + 1)),
                 !.claudeProcess = Len(s.children) + 1,
                 !.lastOutputTs = s.now,
                 !.streamActive = TRUE]

startHangDetection(s) ==
  [AddTimer(s, "interval", HANG_CHECK_INTERVAL_MS, Null)
     EXCEPT !.hangDetectionInterval = s.nextTimer]

\* ---------------------------------------------------------------- shutdown
NoCall == [code |-> Null, src |-> "none"]

\* gracefulShutdown below its guard: the flags and the cleanup tasks
\* (firstCall keeps the arguments of the first call only)
StartCleanup(s, code, src) ==
    LET s1 == [s EXCEPT !.shuttingDown = TRUE,
                        !.exitCode = code,
                        !.firstCall = IF s.shuttingDown THEN @
                                      ELSE [code |-> code, src |-> src],
                        !.lastCall = [code |-> code, src |-> src]]
        \* 1. stop hang detection
        s2 == IF s1.hangDetectionInterval # Null
              THEN ClearTimer(s1, s1.hangDetectionInterval) ELSE s1
        \* 2. stop HTTP server
        hasServer == s2.httpServer # "null"
        s3 == IF hasServer THEN [s2 EXCEPT !.httpServer = "closing"] ELSE s2
        \* 3. terminate the child
        c == s3.claudeProcess
        hasChild == ProcessNotKilled(s3)
        s4 == IF hasChild
              THEN KillChild(
                     [AddTimer(s3, "forceKill", SIGKILL_DELAY_MS, c)
                        EXCEPT !.children[c].shutdownListener = TRUE],
                     c, "SIGTERM")
              ELSE s3
    IN [s4 EXCEPT !.cleanup =
          [active |-> TRUE,
           server |-> IF hasServer THEN "pending" ELSE "none",
           child |-> IF hasChild THEN "pending" ELSE "none",
           code |-> code]]

\* variant: no shuttingDown guard, every call runs the cleanup again
gracefulShutdown_unguarded(s, code, src) ==
  AllSettled(AddTimer(StartCleanup(s, code, src), "shutdownTimeout",
                      GRACEFUL_SHUTDOWN_TIMEOUT_MS, Null))

\* variant: no fallback timeout for the cleanup
gracefulShutdown_noFallback(s, code, src) ==
  IF s.shuttingDown
  THEN [s EXCEPT !.lastCall = [code |-> code, src |-> src]]
  ELSE AllSettled(StartCleanup(s, code, src))

gracefulShutdown(s, code, src) ==
  IF s.shuttingDown
  THEN [s EXCEPT !.lastCall = [code |-> code, src |-> src]]
  ELSE AllSettled(AddTimer(StartCleanup(s, code, src), "shutdownTimeout",
                           GRACEFUL_SHUTDOWN_TIMEOUT_MS, Null))

\* ---------------------------------------------------------------- restart
RecentRestarts(s) ==
  SelectSeq(s.restartTimestamps,
            LAMBDA timestamp : (s.now - timestamp) < RESTART_WINDOW_MS)

\* variant: the count check is off by one (counts the attempt being decided)
canAttemptRestart_early(s) ==
  IF s.restartCount + 1 >= MAX_RESTARTS THEN FALSE
  ELSE IF Len(RecentRestarts(s)) >= MAX_RESTARTS THEN FALSE
  ELSE TRUE

\* variant: the restart time window is not checked
canAttemptRestart_countOnly(s) ==
  IF s.restartCount >= MAX_RESTARTS THEN FALSE
  ELSE TRUE

canAttemptRestart(s) ==
  IF s.restartCount >= MAX_RESTARTS THEN FALSE
  ELSE IF Len(RecentRestarts(s)) >= MAX_RESTARTS THEN FALSE
  ELSE TRUE

scheduleRestart(s) == AddTimer(s, "restart", RESTART_DELAY_MS, Null)

\* variant: giving up on restarts is reported as success
handleClaudeFailure_success(s) ==
  IF s.shuttingDown THEN s
  ELSE IF canAttemptRestart(s) THEN scheduleRestart(s)
  ELSE gracefulShutdown(s, 0, "failure")

handleClaudeFailure(s) ==
  IF s.shuttingDown THEN s
  ELSE IF canAttemptRestart(s) THEN scheduleRestart(s)
  ELSE gracefulShutdown(s, 1, "failure")

\* ---------------------------------------------------------------- hang path
\* variant: the hang path schedules the restart itself instead of leaving it
\* to the 'exit' listener
killHangingProcess_restarts(s) ==
  IF ~ProcessNotKilled(s) THEN s
  ELSE LET c == s.claudeProcess
           s1 == KillChild([s EXCEPT !.children[c].cascades = @ + 1], c, "SIGTERM")
       IN scheduleRestart(AddTimer(s1, "hangKill", SIGKILL_DELAY_MS, c))

killHangingProcess(s) ==
  IF ~ProcessNotKilled(s) THEN s
  ELSE LET c == s.claudeProcess
           s1 == KillChild([s EXCEPT !.children[c].cascades = @ + 1], c, "SIGTERM")
       IN AddTimer(s1, "hangKill", SIGKILL_DELAY_MS, c)

\* the setInterval callback of startHangDetection
HangCheck(s) ==
  IF s.shuttingDown
  THEN ClearTimer(s, s.hangDetectionInterval)
  ELSE IF ~ProcessNotKilled(s)
  THEN s
  ELSE IF s.now - s.lastOutputTs > STREAM_TIMEOUT_MS
  THEN LET s1 == killHangingProcess(s)
       IN ClearTimer(s1, s1.hangDetectionInterval)
  ELSE s

\* the setTimeout callback of killHangingProcess
HangKillTimeout(s) ==
  IF ProcessNotKilled(s)
  THEN KillChild(s, s.claudeProcess, "SIGKILL")
  ELSE s

\* variant: the delayed restart does not re-check shuttingDown
RestartTimeout_unchecked(s, ok) ==
  LET s1 == [s EXCEPT !.restartCount = @ + 1,
                      !.restartTimestamps = Append(@, s.now)]
  IN startHangDetection(spawnClaudeProcess(s1, ok))

\* variant: the restart is counted but its time is not recorded
RestartTimeout_noTimestamp(s, ok) ==
  IF s.shuttingDown
  THEN [s EXCEPT !.cancelled = @ + 1]
  ELSE LET s1 == [s EXCEPT !.restartCount = @ + 1]
       IN startHangDetection(spawnClaudeProcess(s1, ok))

\* the setTimeout callback of scheduleRestart
RestartTimeout(s, ok) ==
  IF s.shuttingDown
  THEN [s EXCEPT !.cancelled = @ + 1]
  ELSE LET s1 == [s EXCEPT !.restartCount = @ + 1,
                           !.restartTimestamps = Append(@, s.now)]
       IN startHangDetection(spawnClaudeProcess(s1, ok))

\* the forceKillTimer callback of gracefulShutdown
ForceKillTimeout(s) ==
  LET c == s.claudeProcess
      s1 == IF ~s.children[c].killed THEN KillChild(s, c, "SIGKILL") ELSE s
  IN AllSettled([s1 EXCEPT !.cleanup.child = "settled"])

\* variant: the fallback path always reports a failure
ShutdownTimeout_failure(s) == finalExit(s, 1)

\* the fallback setTimeout callback of gracefulShutdown
ShutdownTimeout(s) == finalExit(s, s.cleanup.code)

\* httpServer.close callback: with or without an error it resolves the step
\* (the step records which it was)
ServerCloseCallback(s, err) ==
  AllSettled([s EXCEPT !.httpServer = "closed",
                       !.cleanup.server = IF err THEN "failed" ELSE "settled"])

\* ---------------------------------------------------------------- child events
NoExit == [pid |-> Null, code |-> Null]

\* variant: the exit code is not looked at, every exit is a failure
OnExit_alwaysFailure(s, code) ==
  LET s1 == [s EXCEPT !.streamActive = FALSE]
  IN IF s1.shuttingDown THEN s1
     ELSE handleClaudeFailure(s1)

\* the 'exit' listener of setupProcessHandlers
OnExit(s, code) ==
  LET s1 == [s EXCEPT !.streamActive = FALSE]
  IN IF s1.shuttingDown THEN s1
     ELSE IF code = 0 THEN gracefulShutdown(s1, 0, "success")
     ELSE handleClaudeFailure(s1)

\* variant: the 'exit' listener resolves the step but leaves the forced-kill
\* timer armed
OnExitDuringShutdown_noClear(s, c) ==
  AllSettled([s EXCEPT !.cleanup.child = "settled"])

\* the 'exit' listener added by gracefulShutdown
OnExitDuringShutdown(s, c) ==
  LET s1 == [s EXCEPT !.timers = {t \in @ : ~(t.kind = "forceKill" /\ t.pid = c)},
                      !.cleanup.child = "settled"]
  IN AllSettled(s1)

\* a listener of child c calls handleClaudeFailure, which passes its guard
\* when shuttingDown is false
CountFailure(s, c, called) ==
  IF called /\ ~s.shuttingDown
  THEN [s EXCEPT !.children[c].failures = @ + 1] ELSE s

\* the child terminates and emits 'exit' to the listeners registered so far
EmitExit(s, c, code) ==
  LET s0 == [CountFailure(s, c, code # 0)
               EXCEPT !.children[c].alive = FALSE,
                      !.children[c].exitSeen = TRUE,
                      !.lastExit = [pid |-> c, code |-> code]]
      s1 == OnExit(s0, code)
  IN IF s.children[c].shutdownListener /\ ~s1.exited
     THEN OnExitDuringShutdown(s1, c) ELSE s1

\* the 'error' listener of setupProcessHandlers
OnError(s, c) ==
  handleClaudeFailure([CountFailure(s, c, TRUE)
                         EXCEPT !.children[c].errPending = FALSE])

\* ---------------------------------------------------------------- output
\* white space removed by String.prototype.trim
IsSpace(ch) == ch \in {" ", "\t", "\n", "\r"}

RECURSIVE TrimStart(_)
TrimStart(str) ==
  IF str # <<>> /\ IsSpace(Head(str)) THEN TrimStart(Tail(str)) ELSE str

RECURSIVE TrimEnd(_)
TrimEnd(str) ==
  IF str # <<>> /\ IsSpace(str[Len(str)])
  THEN TrimEnd(SubSeq(str, 1, Len(str) - 1)) ELSE str

\* String.prototype.trim
Trim(str) == TrimEnd(TrimStart(str))

\* String.prototype.slice(-n)
SliceLast(str, n) ==
  IF Len(str) <= n THEN str ELSE SubSeq(str, Len(str) - n + 1, Len(str))

NoData == [channel |-> "none", data |-> <<>>]

\* variant: only stdout keeps the snippet up to date
OnData_stdoutOnly(s, channel, data) ==
  [s EXCEPT !.lastOutputTs = s.now,
            !.lastOutputLine = IF channel = "stdout"
                               THEN SliceLast(Trim(data), SNIPPET_LEN) ELSE @,
            !.streamActive = TRUE,
            !.outputs = @ + 1,
            !.lastData = [channel |-> channel, data |-> data]]

\* the 'data' listeners of setupStreamMonitoring (stdout and stderr run the
\* same three assignments)
OnData(s, channel, data) ==
  [s EXCEPT !.lastOutputTs = s.now,
            !.lastOutputLine = SliceLast(Trim(data), SNIPPET_LEN),
            !.streamActive = TRUE,
            !.outputs = @ + 1,
            !.lastData = [channel |-> channel, data |-> data]]

\* ---------------------------------------------------------------- health
HealthRunning(s) == ProcessNotKilled(s)

\* variant: a status query counts as stream activity
handleHealthRequest_activity(s, method, path) ==
  [s EXCEPT !.lastOutputTs = IF method = "GET" /\ path = "/health"
                             THEN s.now ELSE @,
            !.response =
               IF method # "GET"
               THEN [status |-> 405, path |-> "", running |-> FALSE]
               ELSE IF path = "/health"
               THEN [status |-> 200, path |-> path, running |-> HealthRunning(s)]
               ELSE IF path = "/debug"
               THEN [status |-> 200, path |-> path, running |-> FALSE]
               ELSE [status |-> 404, path |-> path, running |-> FALSE]]

handleHealthRequest(s, method, path) ==
  [s EXCEPT !.response =
               IF method # "GET"
               THEN [status |-> 405, path |-> "", running |-> FALSE]
               ELSE IF path = "/health"
               THEN [status |-> 200, path |-> path, running |-> HealthRunning(s)]
               ELSE IF path = "/debug"
               THEN [status |-> 200, path |-> path, running |-> FALSE]
               ELSE [status |-> 404, path |-> path, running |-> FALSE]]

\* ---------------------------------------------------------------- startup
\* process.env.SESSION_ID || 'unknown'
SessionIdOf(env) == IF env = "" THEN "unknown" ELSE env

\* variant: the command is not validated
ValidEnvironment_sessionOnly(s) ==
  ~(s.sessionId = "" \/ s.sessionId = "unknown")

ValidEnvironment(s) ==
  /\ ~(s.sessionId = "" \/ s.sessionId = "unknown")
  /\ ~(s.claudeCommand = "")

initializeSupervisor(s, listenOk, spawnOk) ==
  LET s0 == [s EXCEPT !.pc = "ready"]
  IN IF ~ValidEnvironment(s0)
     THEN ProcessExit(s0, 1)
     ELSE IF ~listenOk
     THEN ProcessExit([s0 EXCEPT !.httpServer = "closed"], 1)
     ELSE spawnClaudeProcess(
            startHangDetection([s0 EXCEPT !.httpServer = "listening"]),
            spawnOk)

\* ---------------------------------------------------------------- inputs
EnvSessionIds == {"", "unknown", "sess-1"}
Commands == {"", "What is 2+2?"}
Chunks == {<<" ", "o", "k", " ">>}
ExitCodes == {0, 1, Null}

NoCleanup == [active |-> FALSE, server |-> "none", child |-> "none", code |-> Null]
NoResponse == [status |-> 0, path |-> "", running |-> FALSE]

InitWith(budget) ==
  /\ claudeProcess = Null
  /\ httpServer = "null"
  /\ lastOutputTs = 0
  /\ lastOutputLine = <<>>
  /\ streamActive = FALSE
  /\ restartCount = 0
  /\ restartTimestamps = <<>>
  /\ sessionId \in {SessionIdOf(e) : e \in EnvSessionIds}
  /\ claudeCommand \in Commands
  /\ shuttingDown = FALSE
  /\ exitCode = Null
  /\ hangDetectionInterval = Null
  /\ now = 0
  /\ pc = "start"
  /\ children = <<>>
  /\ timers = {}
  /\ nextTimer = 1
  /\ cleanup = NoCleanup
  /\ exited = FALSE
  /\ processExitCode = Null
  /\ advances = budget
  /\ outputs = 0
  /\ response = NoResponse
  /\ firstCall = NoCall
  /\ lastCall = NoCall
  /\ lastExit = NoExit
  /\ fired = NoTimer
  /\ lastData = NoData
  /\ cancelled = 0
  /\ canRestartResult = <<>>

Init == InitWith(MaxAdvances)

\* ---------------------------------------------------------------- actions
\* the state a reaction starts from: no response written yet
Re == [St EXCEPT !.response = NoResponse, !.lastCall = NoCall,
                 !.lastExit = NoExit, !.fired = NoTimer,
                 !.lastData = NoData]

\* a timer callback starts: a one-shot timer is gone once it has fired
Fire(t) == [ClearTimer(Re, t.id) EXCEPT !.fired = t]

\* the 'error' event of a failed launch is emitted from process.nextTick:
\* it is handled before the event loop takes up any other event
ErrorPending == \E c \in DOMAIN children : children[c].errPending

Running == ~exited /\ pc = "ready" /\ ~ErrorPending

Startup ==
  /\ ~exited /\ pc = "start"
  /\ \E listenOk \in BOOLEAN, spawnOk \in BOOLEAN :
       Set(initializeSupervisor(Re, listenOk, spawnOk))

ChildOutput ==
  /\ Running
  /\ outputs < MaxOutputs
  /\ \E c \in DOMAIN children, channel \in {"stdout", "stderr"}, data \in Chunks :
       /\ children[c].alive
       /\ Set(OnData(Re, channel, data))

ChildExit ==
  /\ Running
  /\ \E c \in DOMAIN children, code \in ExitCodes :
       /\ children[c].alive
       /\ "SIGKILL" \in children[c].sigs => code = Null
       /\ Set(EmitExit(Re, c, code))

ChildError ==
  /\ ~exited /\ pc = "ready"
  /\ \E c \in DOMAIN children :
       /\ children[c].errPending
       /\ Set(OnError(Re, c))

\* the child changes its user id: from then on the OS refuses the signals
\* of the supervisor (kill fails with EPERM)
ChildChangesOwner ==
  /\ Running
  /\ \E c \in DOMAIN children :
       /\ children[c].alive
       /\ ~children[c].refuses
       /\ Set([Re EXCEPT !.children[c].refuses = TRUE])

Signal ==
  /\ Running
  /\ \E sig \in {"SIGTERM", "SIGINT"} : Set(gracefulShutdown(Re, 0, "signal"))

Fault ==
  /\ Running
  /\ \E kind \in {"uncaughtException", "unhandledRejection"} :
       Set(gracefulShutdown(Re, 1, "fault"))

ServerClosed ==
  /\ Running
  /\ httpServer = "closing"
  /\ \E err \in BOOLEAN : Set(ServerCloseCallback(Re, err))

HealthRequest ==
  /\ Running
  /\ httpServer = "listening"
  /\ \E method \in {"GET", "POST"}, path \in {"/health", "/debug", "/other"} :
       Set(handleHealthRequest(Re, method, path))

RestartTimer ==
  /\ Running
  /\ \E t \in timers, ok \in BOOLEAN :
       /\ t.kind = "restart" /\ Due(t)
       /\ Set(RestartTimeout(Fire(t), ok))

HangTick ==
  /\ Running
  /\ \E t \in timers :
       /\ t.kind = "interval" /\ Due(t)
       /\ Set(HangCheck([Re EXCEPT
              !.timers = (@ \ {t}) \cup {[t EXCEPT !.at = @ + HANG_CHECK_INTERVAL_MS]},
              !.fired = t]))

HangKillTimer ==
  /\ Running
  /\ \E t \in timers :
       /\ t.kind = "hangKill" /\ Due(t)
       /\ Set(HangKillTimeout(Fire(t)))

ForceKillTimer ==
  /\ Running
  /\ \E t \in timers :
       /\ t.kind = "forceKill" /\ Due(t)
       /\ Set(ForceKillTimeout(Fire(t)))

ShutdownTimer ==
  /\ Running
  /\ \E t \in timers :
       /\ t.kind = "shutdownTimeout" /\ Due(t)
       /\ Set(ShutdownTimeout(Fire(t)))

\* ---------------------------------------------------------------- clock
Min(S) == CHOOSE x \in S : \A y \in S : x <= y

MayAdvance ==
  /\ Running
  /\ timers # {}
  /\ \A t \in timers : ~Due(t)
  /\ shuttingDown \/ advances > 0

\* the event loop sleeps until the next timer is due
Advance ==
  /\ MayAdvance
  /\ now' = Min({t.at : t \in timers})
  /\ advances' = IF shuttingDown THEN advances ELSE advances - 1
  /\ response' = NoResponse
  /\ lastCall' = NoCall
  /\ lastExit' = NoExit
  /\ fired' = NoTimer
  /\ lastData' = NoData
  /\ UNCHANGED <<supervisorState, pc, children, timers, nextTimer, cleanup,
                 exited, processExitCode, outputs, firstCall,
                 cancelled, canRestartResult>>

\* first firing time of interval timer t at or after time x
TickAtOrAfter(t, x) ==
  IF t.at >= x THEN t.at
  ELSE t.at + HANG_CHECK_INTERVAL_MS *
         (((x - t.at) + HANG_CHECK_INTERVAL_MS - 1) \div HANG_CHECK_INTERVAL_MS)

Intervals == {t \in timers : t.kind = "interval"}

\* A silent stretch: the child writes nothing and every hang check up to
\* time T finds the stream healthy, so the checks before T change nothing.
\* The clock moves to T, a check time around the moment the silence
\* exceeds STREAM_TIMEOUT_MS, and the interval timers keep their phase.
Silence ==
  /\ MayAdvance
  /\ ~shuttingDown
  /\ ProcessNotKilled(St)
  /\ LET hangAt == lastOutputTs + STREAM_TIMEOUT_MS
     IN \E i \in Intervals, x \in {hangAt - HANG_CHECK_INTERVAL_MS + 1, hangAt + 1} :
          LET T == TickAtOrAfter(i, x)
          IN /\ T > now
             /\ \A t \in timers : t.kind # "interval" => t.at >= T
             /\ \A j \in Intervals : TickAtOrAfter(j, hangAt + 1) >= T
             /\ now' = T
             /\ timers' = {IF t.kind = "interval"
                           THEN [t EXCEPT !.at = TickAtOrAfter(t, T)] ELSE t
                           : t \in timers}
  /\ advances' = advances - 1
  /\ response' = NoResponse
  /\ lastCall' = NoCall
  /\ lastExit' = NoExit
  /\ fired' = NoTimer
  /\ lastData' = NoData
  /\ UNCHANGED <<supervisorState, pc, children, nextTimer, cleanup,
                 exited, processExitCode, outputs, firstCall,
                 cancelled, canRestartResult>>

Next ==
  \/ Startup
  \/ ChildOutput
  \/ ChildExit
  \/ ChildError
  \/ Signal
  \/ Fault
  \/ ServerClosed
  \/ HealthRequest
  \/ RestartTimer
  \/ HangTick
  \/ HangKillTimer
  \/ ForceKillTimer
  \/ ShutdownTimer
  \/ Advance
  \/ Silence

Spec == Init /\ [][Next]_vars

\* ---------------------------------------------------------------- other runs
\* runs without a silent stretch and without status queries: no child stays
\* silent long enough for the hang check to find it hung and no client asks
\* for the status, so the clock budget can be spent on restarts
InitNoHang == InitWith(NoHangAdvances)

NextNoHang ==
  \/ Startup
  \/ ChildOutput
  \/ ChildExit
  \/ ChildError
  \/ Signal
  \/ Fault
  \/ ServerClosed
  \/ RestartTimer
  \/ HangTick
  \/ ForceKillTimer
  \/ ShutdownTimer
  \/ Advance

SpecNoHang == InitNoHang /\ [][NextNoHang]_vars

\* runs in which the event loop keeps running: a due timer fires and the
\* loop sleeps until the next one
InitFair == InitWith(FairAdvances)

\* one turn of the timer phase of the event loop
EventLoop ==
  \/ RestartTimer
  \/ HangTick
  \/ HangKillTimer
  \/ ForceKillTimer
  \/ ShutdownTimer
  \/ Advance

FairSpec == InitFair /\ [][Next]_vars /\ WF_vars(EventLoop)

\* runs without status queries: no client asks for the status, so the clock
\* budget can be spent on a hang and what follows it
InitQuiet == InitWith(QuietAdvances)

NextQuiet ==
  \/ Startup
  \/ ChildOutput
  \/ ChildExit
  \/ ChildError
  \/ Signal
  \/ Fault
  \/ ServerClosed
  \/ RestartTimer
  \/ HangTick
  \/ HangKillTimer
  \/ ForceKillTimer
  \/ ShutdownTimer
  \/ Advance
  \/ Silence

SpecQuiet == InitQuiet /\ [][NextQuiet]_vars

\* the same runs with the event loop running and with SIGKILL effective: a
\* child that was sent SIGKILL terminates
InitHang == InitWith(HangAdvances)

ForcedExit ==
  /\ Running
  /\ \E c \in DOMAIN children :
       /\ children[c].alive
       /\ "SIGKILL" \in children[c].sigs
       /\ Set(EmitExit(Re, c, Null))

FairHangSpec ==
  InitHang /\ [][NextQuiet]_vars /\ WF_vars(EventLoop) /\ WF_vars(ForcedExit)

\* runs in which nobody asks the supervisor to stop and nobody asks for the
\* status: no signal, no fault, no status query, so the clock budget can be
\* spent on several restarts followed by a silent stretch
InitLeak == InitWith(LeakAdvances)

NextLeak ==
  \/ Startup
  \/ ChildOutput
  \/ ChildExit
  \/ ChildError
  \/ ServerClosed
  \/ RestartTimer
  \/ HangTick
  \/ HangKillTimer
  \/ ForceKillTimer
  \/ ShutdownTimer
  \/ Advance
  \/ Silence

SpecLeak == InitLeak /\ [][NextLeak]_vars

\* the same runs, in which a child may change its user id, so that the
\* signals of the supervisor are refused
InitRefuse == InitWith(RefuseAdvances)

NextRefuse ==
  \/ Startup
  \/ ChildOutput
  \/ ChildExit
  \/ ChildError
  \/ ChildChangesOwner
  \/ ServerClosed
  \/ RestartTimer
  \/ HangTick
  \/ HangKillTimer
  \/ ForceKillTimer
  \/ ShutdownTimer
  \/ Advance
  \/ Silence

SpecRefuse == InitRefuse /\ [][NextRefuse]_vars

\* the restart policy on its own: canAttemptRestart() applied once to a
\* restart count, a restart history and a clock value chosen freely
PolicyTimes == {0, 1, RESTART_WINDOW_MS}
PolicyNows == {RESTART_WINDOW_MS, RESTART_WINDOW_MS + 1}
Histories == UNION {[1..n -> PolicyTimes] : n \in 0..MaxHist}

InitPolicy ==
  /\ claudeProcess = Null
  /\ httpServer = "null"
  /\ lastOutputTs = 0
  /\ lastOutputLine = <<>>
  /\ streamActive = FALSE
  /\ restartCount \in 0..MaxCount
  /\ restartTimestamps \in Histories
  /\ sessionId = "sess-1"
  /\ claudeCommand = "What is 2+2?"
  /\ shuttingDown = FALSE
  /\ exitCode = Null
  /\ hangDetectionInterval = Null
  /\ now \in PolicyNows
  /\ pc = "policy"
  /\ children = <<>>
  /\ timers = {}
  /\ nextTimer = 1
  /\ cleanup = NoCleanup
  /\ exited = FALSE
  /\ processExitCode = Null
  /\ advances = 0
  /\ outputs = 0
  /\ response = NoResponse
  /\ firstCall = NoCall
  /\ lastCall = NoCall
  /\ lastExit = NoExit
  /\ fired = NoTimer
  /\ lastData = NoData
  /\ cancelled = 0
  /\ canRestartResult = <<>>

CheckRestart ==
  /\ pc = "policy"
  /\ canRestartResult = <<>>
  /\ Set([St EXCEPT !.canRestartResult = <<canAttemptRestart(St)>>])

NextPolicy == CheckRestart

SpecPolicy == InitPolicy /\ [][NextPolicy]_vars

\* the output tracking on its own: a running child writes chunks of every
\* shape to both channels while the clock moves
LongChunk == [i \in 1..(SNIPPET_LEN + 1) |-> IF i = 1 THEN "a" ELSE "b"]
OutputChunks ==
  {<<"o", "k">>, <<"o", "k", "\n">>, <<" ", "o", "k">>, <<"\n">>,
   LongChunk, LongChunk \o <<"\n">>}

\* the state after a startup that spawned the child
InitOutput ==
  /\ claudeProcess = 1
  /\ httpServer = "listening"
  /\ lastOutputTs = 0
  /\ lastOutputLine = <<>>
  /\ streamActive = TRUE
  /\ restartCount = 0
  /\ restartTimestamps = <<>>
  /\ sessionId = "sess-1"
  /\ claudeCommand = "What is 2+2?"
  /\ shuttingDown = FALSE
  /\ exitCode = Null
  /\ hangDetectionInterval = 1
  /\ now = 0
  /\ pc = "output"
  /\ children = <<NewChild(TRUE, 1)>>
  /\ timers = {[id |-> 1, kind |-> "interval",
                at |-> HANG_CHECK_INTERVAL_MS, pid |-> Null]}
  /\ nextTimer = 2
  /\ cleanup = NoCleanup
  /\ exited = FALSE
  /\ processExitCode = Null
  /\ advances = 0
  /\ outputs = 0
  /\ response = NoResponse
  /\ firstCall = NoCall
  /\ lastCall = NoCall
  /\ lastExit = NoExit
  /\ fired = NoTimer
  /\ lastData = NoData
  /\ cancelled = 0
  /\ canRestartResult = <<>>

OutputEvent ==
  /\ pc = "output"
  /\ outputs < MaxEvents
  /\ \E channel \in {"stdout", "stderr"}, data \in OutputChunks :
       Set(OnData(Re, channel, data))

\* a millisecond passes between two output events
OutputClock ==
  /\ pc = "output"
  /\ now < MaxClock
  /\ Set([Re EXCEPT !.now = @ + 1])

NextOutput == OutputEvent \/ OutputClock

SpecOutput == InitOutput /\ [][NextOutput]_vars

\* ---------------------------------------------------------------- properties
Alive(c) == children[c].alive
LiveChildren == {c \in DOMAIN children : Alive(c)}
TimersOf(kind) == {t \in timers : t.kind = kind}
Fired(kind) == fired' # NoTimer /\ fired'.kind = kind
\* number of entries of history h younger than RESTART_WINDOW_MS at time t
RecentCount(h, t) ==
  Cardinality({i \in 1..Len(h) : t - h[i] < RESTART_WINDOW_MS})

C2_ShutdownLatches ==
  [][shuttingDown =>
       /\ Len(children') = Len(children)
       /\ restartCount' = restartCount
       /\ restartTimestamps' = restartTimestamps
       /\ \A c \in DOMAIN children : children'[c].cascades = children[c].cascades
       /\ {t \in timers' : t.kind = "hangKill"} \subseteq TimersOf("hangKill")
       /\ Fired("restart") => cancelled' = cancelled + 1
    ]_vars

\* a restart that was pending at the shutdown request has been cancelled
C2_Witness ==
  /\ shuttingDown
  /\ cancelled > 0
  /\ restartCount = Len(restartTimestamps)

\* C3: a gracefulShutdown call made while shuttingDown changes no state and
\* starts no cleanup, and final exit gets the exit code of the first call.
C3_ShutdownIdempotent ==
  [][/\ (shuttingDown /\ lastCall' # NoCall) =>
           UNCHANGED <<supervisorState, now, pc, children, timers, nextTimer,
                       cleanup, exited, processExitCode, firstCall>>
     /\ (shuttingDown' /\ exited' /\ ~exited) =>
           processExitCode' = firstCall'.code
    ]_vars

\* a second call with another exit code was made during the shutdown
C3_Witness ==
  /\ shuttingDown
  /\ lastCall # NoCall
  /\ lastCall.code # firstCall.code
  /\ exitCode = firstCall.code

\* C4: when every child fails and every restart delay elapses without a
\* shutdown request, exactly MAX_RESTARTS restarts are made and the failure
\* after the last one requests shutdown with exit code 1 while
\* restartCount = MAX_RESTARTS.
C4_RestartBudget ==
  firstCall.src = "failure" =>
    /\ exitCode = 1
    /\ restartCount = MAX_RESTARTS
    /\ Len(restartTimestamps) = MAX_RESTARTS
    /\ Len(children) = MAX_RESTARTS + 1
    /\ LiveChildren = {}
    /\ TimersOf("restart") = {}
    /\ exited => processExitCode = 1

\* the supervisor has exited with code 1 after the restarts ran out
C4_Witness ==
  /\ exited
  /\ firstCall.src = "failure"
  /\ processExitCode = 1
  /\ restartCount = MAX_RESTARTS
  /\ \A c \in DOMAIN children : children[c].exitSeen

\* C5: a child exiting with code 0 while shuttingDown is false requests
\* shutdown with exit code 0, schedules no restart and leaves restartCount at
\* the value it had when that child was spawned.
C5_SuccessExit ==
  /\ [][(~shuttingDown /\ lastExit' # NoExit /\ lastExit'.code = 0) =>
          /\ shuttingDown'
          /\ exitCode' = 0
          /\ firstCall' = [code |-> 0, src |-> "success"]
          /\ {t \in timers' : t.kind = "restart"} \subseteq TimersOf("restart")
          /\ restartCount' = restartCount
          /\ restartCount' = children[lastExit'.pid].attempt - 1
       ]_vars
  /\ []((exited /\ firstCall.src = "success") => processExitCode = 0)

\* a restarted child has exited with code 0 and the supervisor with code 0
C5_Witness ==
  /\ exited
  /\ firstCall.src = "success"
  /\ processExitCode = 0
  /\ restartCount >= 1

\* C6: a hang check that finds a live child silent for longer than
\* STREAM_TIMEOUT_MS sends it SIGTERM, and if that child has still not exited
\* when the forced-kill delay elapses, SIGKILL is sent to it.
C6_KillCascade ==
  [][/\ (/\ ~shuttingDown
         /\ Fired("interval")
         /\ claudeProcess # Null
         /\ Alive(claudeProcess)
         /\ now - lastOutputTs > STREAM_TIMEOUT_MS)
        => "SIGTERM" \in children'[claudeProcess].sigs
     /\ (Fired("hangKill") /\ Alive(fired'.pid))
        => "SIGKILL" \in children'[fired'.pid].sigs
    ]_vars

\* C7: after a shutdown request final exit is invoked, at the latest when
\* the fallback timeout armed by the request fires, whatever the child and
\* the HTTP server do.
C7_ShutdownCompletes ==
  /\ []((shuttingDown /\ ~exited) =>
          \E t \in TimersOf("shutdownTimeout") : now <= t.at)
  /\ [][Fired("shutdownTimeout") => exited']_vars
  /\ (shuttingDown ~> exited)

\* final exit came from the fallback timeout: the server never reported
\* closed and a child ignored every signal it could be sent
C7_Witness ==
  /\ exited
  /\ shuttingDown
  /\ cleanup.server = "pending"
  /\ LiveChildren # {}

\* C8: when SIGTERM or SIGINT arrives while a child is running and no
\* shutdown was requested before, status queries before the signal report
\* running = true, and afterwards the HTTP server is closed and the
\* supervisor exits with code 0.
C8_SignalWhileRunning ==
  /\ [][(/\ ~shuttingDown
         /\ claudeProcess # Null
         /\ Alive(claudeProcess)
         /\ response' # NoResponse
         /\ response'.status = 200
         /\ response'.path = "/health")
        => response'.running]_vars
  /\ []((exited /\ firstCall.src = "signal") =>
          (processExitCode = 0 /\ httpServer # "listening"))

\* C9: with the session id or the command absent, the supervisor exits with
\* code 1 before the HTTP server, the hang detection and any child start.
C9_ValidationFirst ==
  (pc # "start" /\ (sessionId = "unknown" \/ claudeCommand = "")) =>
    /\ exited
    /\ processExitCode = 1
    /\ httpServer = "null"
    /\ hangDetectionInterval = Null
    /\ timers = {}
    /\ children = <<>>
    /\ claudeProcess = Null
    /\ ~shuttingDown

\* startup has run with a session id but no command
C9_Witness ==
  /\ pc = "ready"
  /\ sessionId = "sess-1"
  /\ claudeCommand = ""
  /\ exited

\* C10: canAttemptRestart() returns true exactly when restartCount is below
\* MAX_RESTARTS and fewer than MAX_RESTARTS timestamps lie within
\* RESTART_WINDOW_MS of now, and it changes no state.
C10_CanRestart ==
  /\ [](canRestartResult # <<>> =>
          (canRestartResult[1] <=>
             (/\ restartCount < MAX_RESTARTS
              /\ RecentCount(restartTimestamps, now) < MAX_RESTARTS)))
  /\ [][UNCHANGED <<supervisorState, now, children, timers>>]_vars

\* refused on the window bound alone: the count is below the limit
C10_Witness ==
  /\ canRestartResult = <<FALSE>>
  /\ restartCount < MAX_RESTARTS
  /\ RecentCount(restartTimestamps, now) >= MAX_RESTARTS

\* the white space at the two ends of str is its first a and its last b
\* characters
EndsOf(str, a, b) ==
  /\ a + b <= Len(str)
  /\ \A i \in 1..a : IsSpace(str[i])
  /\ \A i \in (Len(str) - b + 1)..Len(str) : IsSpace(str[i])
  /\ a + b < Len(str) => (~IsSpace(str[a + 1]) /\ ~IsSpace(str[Len(str) - b]))

\* snip is the last min(n, length) characters of str
LastChars(snip, str, n) ==
  /\ Len(snip) = IF Len(str) < n THEN Len(str) ELSE n
  /\ \A i \in 1..Len(snip) : snip[i] = str[Len(str) - Len(snip) + i]

\* C11 (as stated): after an output event on either channel lastOutputTs is
\* the time of the event, lastOutputLine is the last min(100, length)
\* characters of the event's content, and streamActive is true.
C11_OutputTracker_Original ==
  [][lastData' # NoData =>
       /\ lastOutputTs' = now'
       /\ LastChars(lastOutputLine', lastData'.data, SNIPPET_LEN)
       /\ streamActive'
    ]_vars

\* C11 (amended): after an output event on either channel lastOutputTs is
\* the time of the event, lastOutputLine is the last min(100, length)
\* characters of the event's content with the white space at its two ends
\* removed, and streamActive is true.
C11_OutputTracker ==
  [][lastData' # NoData =>
       /\ lastOutputTs' = now'
       /\ \E a, b \in 0..Len(lastData'.data) :
            /\ EndsOf(lastData'.data, a, b)
            /\ LastChars(lastOutputLine',
                         SubSeq(lastData'.data, a + 1, Len(lastData'.data) - b),
                         SNIPPET_LEN)
       /\ streamActive'
    ]_vars

\* a chunk longer than the snippet and ending in white space arrived on
\* stderr after an earlier event at an earlier time
C11_Witness ==
  /\ lastData.channel = "stderr"
  /\ Len(lastData.data) > SNIPPET_LEN + 1
  /\ IsSpace(lastData.data[Len(lastData.data)])
  /\ Len(lastOutputLine) = SNIPPET_LEN
  /\ outputs >= 2
  /\ lastOutputTs > 0

\* C12: restartCount equals the length of restartTimestamps in every
\* reachable state, and restartTimestamps only changes by an entry being
\* appended.
C12_CountIsHistoryLength ==
  /\ [](restartCount = Len(restartTimestamps))
  /\ [][\/ restartTimestamps' = restartTimestamps
        \/ /\ Len(restartTimestamps') = Len(restartTimestamps) + 1
           /\ SubSeq(restartTimestamps', 1, Len(restartTimestamps))
                = restartTimestamps
           /\ restartTimestamps'[Len(restartTimestamps')] = now'
       ]_vars

\* two restarts have been made, at different times
C12_Witness ==
  /\ restartCount = 2
  /\ Len(restartTimestamps) = 2
  /\ restartTimestamps[1] < restartTimestamps[2]

\* C13: exitCode is non-null exactly when shuttingDown is true, shuttingDown
\* never returns to false, and exitCode, once set, never changes and is the
\* status final exit is invoked with.
C13_FinalExitCode ==
  /\ [](exitCode # Null <=> shuttingDown)
  /\ [][/\ shuttingDown => shuttingDown'
        /\ exitCode # Null => exitCode' = exitCode
        /\ (shuttingDown' /\ exited' /\ ~exited) => processExitCode' = exitCode'
       ]_vars

\* final exit was invoked with the status 1 stored by the shutdown request
C13_Witness ==
  /\ shuttingDown
  /\ exited
  /\ exitCode = 1
  /\ processExitCode = exitCode

\* C14: handling a status request, whatever its method and path and
\* whenever it arrives, changes no field of the supervisor state, sends no
\* signal to a child and starts or cancels no timer.
C14_HealthReadOnly ==
  [][response' # NoResponse =>
       UNCHANGED <<supervisorState, children, timers, nextTimer, cleanup,
                   exited, processExitCode, now, firstCall, cancelled>>
    ]_vars

\* a status query was answered after a long silence, with a child alive
\* that was sent SIGTERM and the forced-kill timer armed
C14_Witness ==
  /\ response.status = 200
  /\ response.path = "/health"
  /\ now - lastOutputTs > STREAM_TIMEOUT_MS
  /\ LiveChildren # {}
  /\ TimersOf("hangKill") # {}

\* C15: at every status query the running field is true exactly when a
\* child has been spawned and has not yet terminated: false after the
\* child's exit until the next spawn, true for a child that was sent
\* SIGTERM and is still alive.
C15_RunningIffAlive ==
  [][(/\ response' # NoResponse
      /\ response'.status = 200
      /\ response'.path = "/health")
     => (response'.running <=> LiveChildren # {})
    ]_vars

\* C16 (as stated): the exit status is 0 only if the first shutdown request
\* came from a child exiting with code 0 or from a termination signal, and
\* 1 only if it came from a failure with the restart budget exhausted, from
\* an uncaught fault or unhandled rejection, or from startup validation
\* failing; there is no other status.
C16_ExitCodes_Original ==
  exited =>
    /\ processExitCode \in {0, 1}
    /\ processExitCode = 0 => firstCall.src \in {"success", "signal"}
    /\ processExitCode = 1 =>
         \/ firstCall.src = "fault"
         \/ firstCall.src = "failure" /\ ~canAttemptRestart(St)
         \/ ~shuttingDown /\ ~ValidEnvironment(St)

\* C16 (amended): as above, and the status is also 1 when startup fails
\* after validation because the status server cannot be started.
C16_ExitCodes ==
  exited =>
    /\ processExitCode \in {0, 1}
    /\ processExitCode = 0 => firstCall.src \in {"success", "signal"}
    /\ processExitCode = 1 =>
         \/ firstCall.src = "fault"
         \/ firstCall.src = "failure" /\ ~canAttemptRestart(St)
         \/ ~shuttingDown /\ ~ValidEnvironment(St)
         \/ ~shuttingDown /\ ValidEnvironment(St) /\ httpServer = "closed"

\* the supervisor exited with status 1 because the status server could not
\* be started, with a valid session id and command
C16_Witness ==
  /\ exited
  /\ processExitCode = 1
  /\ ~shuttingDown
  /\ ValidEnvironment(St)
  /\ httpServer = "closed"
  /\ children = <<>>

\* C17: claudeProcess is null before the first spawn and again from the
\* moment a child's termination was observed until the next spawn, so a
\* non-null claudeProcess is a child that has not yet terminated.
C17_HandleNullAfterTermination ==
  /\ children = <<>> => claudeProcess = Null
  /\ claudeProcess # Null =>
       /\ ~children[claudeProcess].exitSeen
       /\ Alive(claudeProcess) \/ children[claudeProcess].errPending

\* C18: the forced-kill timer armed by a kill cascade sends its signal only
\* to the child the cascade was started for: a replacement spawned before
\* the forced-kill delay elapsed gets no signal from that timer.
C18_ForcedKillOwnChild ==
  [][(Fired("hangKill") /\ "SIGTERM" \in children[fired'.pid].sigs) =>
       \A c \in DOMAIN children :
         c # fired'.pid => children'[c].sigs = children[c].sigs
    ]_vars

\* the kill cascade started for live child c has run to its end: SIGTERM
\* was sent and the forced-kill delay has elapsed
CascadeOver(c) ==
  /\ c \in DOMAIN children
  /\ children[c].cascades > 0
  /\ "SIGTERM" \in children[c].sigs
  /\ ~\E t \in timers : t.kind = "hangKill" /\ t.pid = c

\* C19: when the hang check has started the kill cascade for a live child
\* while shuttingDown was false, the termination of that child is
\* eventually observed (unless a shutdown is requested first), even if the
\* child ignores SIGTERM, given that SIGKILL always terminates a child.
C19_HangLeadsToTermination ==
  \A c \in 1..(MAX_RESTARTS + 1) :
    (CascadeOver(c) /\ ~shuttingDown)
      ~> (shuttingDown \/ (c \in DOMAIN children /\ children[c].exitSeen))

\* C20: a hang check that runs while no child is alive and shuttingDown is
\* false sends no signal, arms no forced-kill timer, does not stop the
\* detector and changes no state, however long the silence has lasted.
C20_TickWithoutChild ==
  [][(Fired("interval") /\ ~shuttingDown /\ LiveChildren = {}) =>
       /\ UNCHANGED <<supervisorState, children, cleanup, exited>>
       /\ {t \in timers' : t.kind # "interval"}
            = {t \in timers : t.kind # "interval"}
       /\ {t.id : t \in {u \in timers' : u.kind = "interval"}}
            = {t.id : t \in Intervals}
    ]_vars

\* C21: for each spawned child the hang path starts the kill cascade at most
\* once: over all hang checks made while it is the current child, at most
\* one SIGTERM is sent and at most one forced-kill timer is armed for it.
C21_HangSingleShot ==
  \A c \in DOMAIN children :
    /\ children[c].cascades <= 1
    /\ Cardinality({t \in TimersOf("hangKill") : t.pid = c}) <= 1

\* C22: at most one hang-detector timer is active at any time and it is the
\* one recorded in hangDetectionInterval: starting hang detection for a new
\* child leaves no earlier timer ticking, and after a shutdown request none
\* is ticking.
C22_OneHangDetector ==
  /\ Cardinality(Intervals) <= 1
  /\ \A t \in Intervals : t.id = hangDetectionInterval
  /\ shuttingDown => Intervals = {}

\* C23: at most one restart is pending at any time, and the failure path
\* (from the child's 'exit' with a non-zero code or a signal, or from its
\* 'error') runs at most once for each child, also when both an 'error' and
\* an 'exit' are delivered for the same child.
C23_OneFailurePerChild ==
  /\ Cardinality(TimersOf("restart")) <= 1
  /\ \A c \in DOMAIN children : children[c].failures <= 1

\* C24: restartCount never exceeds MAX_RESTARTS: the count that was below
\* the limit when a restart was scheduled is still below it when the delayed
\* restart increments it.
C24_CountBounded == restartCount <= MAX_RESTARTS

\* C25: when a shutdown was requested while a child was alive and the child
\* has still not exited when the forced-kill delay elapses, SIGKILL is sent
\* to that child and the child-termination cleanup step is resolved, whether
\* or not the child ever exits.
C25_ShutdownForcedKill ==
  [][(Fired("forceKill") /\ Alive(fired'.pid)) =>
       /\ "SIGKILL" \in children'[fired'.pid].sigs
       /\ cleanup'.child = "settled"
    ]_vars

\* C26: during the shutdown cleanup, once the exit of the child was observed
\* no signal is sent to it any more and its forced-kill timer is cancelled,
\* and the child-termination step is resolved once, by the exit event or by
\* the forced-kill timer, whichever comes first: the timer only ever fires
\* on a step that is still pending.
C26_OneOutcomeResolves ==
  [][/\ \A c \in DOMAIN children :
          children[c].exitSeen => children'[c].sigs = children[c].sigs
     /\ (shuttingDown /\ lastExit' # NoExit
           /\ children[lastExit'.pid].shutdownListener) =>
          /\ cleanup'.child = "settled"
          /\ ~\E t \in timers' : t.kind = "forceKill" /\ t.pid = lastExit'.pid
     /\ (cleanup.child = "pending" /\ cleanup'.child = "settled") =>
          (lastExit' # NoExit) # Fired("forceKill")
     /\ cleanup.child = "settled" => cleanup'.child = "settled"
     /\ Fired("forceKill") => cleanup.child = "pending"
    ]_vars

\* the child exited during the cleanup, after SIGTERM and before the
\* forced-kill delay elapsed, while the status server was still closing
C26_Witness ==
  /\ shuttingDown /\ ~exited
  /\ lastExit # NoExit
  /\ children[lastExit.pid].shutdownListener
  /\ "SIGTERM" \in children[lastExit.pid].sigs
  /\ cleanup.child = "settled"
  /\ cleanup.server = "pending"
  /\ TimersOf("forceKill") = {}

\* C27: final exit is invoked before the shutdown timeout fires only when
\* every cleanup step that was started has settled, and it is invoked as
\* soon as they all have; a close of the status server that ends with an
\* error settles its step like a successful one, leaves the
\* child-termination step as it was, and never delays final exit beyond the
\* shutdown timeout.
C27_ExitWhenAllSettled ==
  /\ [][/\ (shuttingDown' /\ exited' /\ ~exited /\ ~Fired("shutdownTimeout")) =>
            /\ cleanup'.server \in {"none", "settled", "failed"}
            /\ cleanup'.child \in {"none", "settled"}
        /\ (cleanup.server = "pending" /\ cleanup'.server = "failed") =>
            /\ cleanup'.child = cleanup.child
            /\ {t \in timers' : t.kind = "forceKill"} = TimersOf("forceKill")
            /\ children' = children
       ]_vars
  /\ []((cleanup.active /\ cleanup.server # "pending" /\ cleanup.child # "pending")
          => exited)
  /\ []((shuttingDown /\ ~exited) =>
          \E t \in TimersOf("shutdownTimeout") : now <= t.at)

\* the close of the status server ended with an error, the child exited on
\* SIGTERM afterwards, and final exit was invoked before the shutdown timeout
C27_Witness ==
  /\ exited
  /\ cleanup.server = "failed"
  /\ cleanup.child = "settled"
  /\ lastExit # NoExit
  /\ "SIGTERM" \in children[lastExit.pid].sigs
  /\ \E t \in TimersOf("shutdownTimeout") : now < t.at

\* C28: over the settle path and the timeout path of one shutdown the
\* supervisor process is terminated once, with the exit code of the shutdown
\* request whichever path gets there: after final exit was invoked nothing
\* runs any more, so a second invocation cannot change the exit code.
C28_ExitOnce ==
  [][/\ (shuttingDown' /\ exited' /\ ~exited) =>
          /\ processExitCode' = firstCall'.code
          /\ processExitCode' = cleanup'.code
     /\ exited => UNCHANGED <<exited, processExitCode, supervisorState,
                              children, timers, cleanup>>
    ]_vars

\* final exit came from the timeout path with code 1 after the settle path
\* had got as far as the child-termination step
C28_Witness ==
  /\ exited
  /\ fired.kind = "shutdownTimeout"
  /\ processExitCode = 1
  /\ cleanup.child = "settled"
  /\ cleanup.server = "pending"

====
